---- MODULE Spec2Model ----
(***************************************************************************)
(* conduct.util: systemCall (stream multiplexer over a child's stdout and  *)
(* stderr pipes) and chrootedSystemCall (mount / chroot / unmount).        *)
(*                                                                         *)
(* Byte streams are sequences of one-character strings; commands, paths    *)
(* and flags are strings built as the code builds them.  The child process *)
(* is the environment: it writes bytes to its two pipes and exits, at any  *)
(* time relative to the steps of the drain loop.  Its pipe write ends are  *)
(* closed when it exits (it leaves no descendant holding them).            *)
(***************************************************************************)
EXTENDS Integers, Sequences, FiniteSets, TLC

\* Bounds of the model: the number of bytes the child of a direct systemCall
\* writes to stdout and to stderr, and the number the chrooted command writes.
MaxOut == 3
MaxErr == 2
ChrootMaxOut == 2
ChrootMaxErr == 1

\* proc.stdout.read(100) / proc.stderr.read(100)
ChunkSize == 100

NL == "\n"
\* Bytes the modelled child may write to stdout and to stderr.
OutChars == {"a", NL}
ErrChars == {"e", NL}
\* Exit statuses of a child: success, failure, killed by a signal.
ExitCodes == {0, 1, -9}
\* Exit statuses of the mount / umount commands.
MountExitCodes == {0, 32}

\* Python's None for proc.returncode; a known status rc is <<rc>>.
None == <<>>
NoExc == [type |-> "None", returncode |-> 0, cmd |-> "", output |-> <<>>]

VARIABLES
    call,        \* the caller's invocation: fn, cmd, sh, mountPseudoFs
    pc,          \* position in chrootedSystemCall / the top-level call
    idx,         \* which mount / umount statement of the sequence is next
    spc,         \* position in the running systemCall ("idle": none running)
    cmd,         \* systemCall's cmd argument
    child,       \* "none" | "running" | "exited": the process behind proc
    exitCode,    \* the exit status of the child once exited
    pipeOut,     \* bytes written to stdout and not yet read
    pipeErr,     \* bytes written to stderr and not yet read
    wrOut,       \* every byte the child has written to stdout (history)
    wrErr,       \* every byte the child has written to stderr (history)
    fds,         \* pollOutput's fds: descriptors reported by poller.poll()
    outBuf,      \* outBuf[0]
    errBuf,      \* errBuf[0]
    out,         \* out: list of captured stdout lines
    returncode,  \* proc.returncode
    log,         \* calls received by the logger: <<level, text>>
    pending,     \* result of the try body while the finally clause runs
    result,      \* what the top-level call gave its caller
    issued,      \* every command line handed to Popen, in order
    failed,      \* the issued commands that exited non-zero (history)
    mounted,     \* mount points currently mounted under the chroot
    dirs,        \* paths that exist under the chroot
    readFailed   \* a read raised IOError for a cause other than "no data yet"

vars ==
    <<call, pc, idx, spc, cmd, child, exitCode, pipeOut, pipeErr, wrOut, wrErr, fds,
      outBuf, errBuf, out, returncode, log, pending, result, issued, failed,
      mounted, dirs, readFailed>>

procVars == <<child, exitCode, pipeOut, pipeErr, wrOut, wrErr>>
bufVars == <<fds, outBuf, errBuf, out, returncode>>
fsVars == <<failed, mounted, dirs>>

(***************************************************************************)
(* Pure helpers                                                            *)
(***************************************************************************)
Min(a, b) == IF a < b THEN a ELSE b

\* '\n' in buf
HasNL(buf) == \E i \in 1..Len(buf) : buf[i] = NL

FirstNL(buf) == CHOOSE i \in 1..Len(buf) : buf[i] = NL /\ \A j \in 1..(i-1) : buf[j] # NL

\* line, _, rest = buf.partition('\n')
Partition(buf) ==
    [line |-> SubSeq(buf, 1, FirstNL(buf) - 1),
     rest |-> SubSeq(buf, FirstNL(buf) + 1, Len(buf))]

\* Mutation of SplitLines: "if" in place of "while", one line per chunk.
SplitLinesOnce(buf) ==
    IF HasNL(buf)
    THEN [lines |-> <<Partition(buf).line>>, rest |-> Partition(buf).rest]
    ELSE [lines |-> <<>>, rest |-> buf]

\* while '\n' in buf: line, _, buf = buf.partition('\n'); emit(line)
RECURSIVE SplitLines(_)
SplitLines(buf) ==
    IF HasNL(buf)
    THEN LET p == Partition(buf)
             r == SplitLines(p.rest)
         IN [lines |-> <<p.line>> \o r.lines, rest |-> r.rest]
    ELSE [lines |-> <<>>, rest |-> buf]

\* ''.join(out)
RECURSIVE Join(_)
Join(lines) ==
    IF lines = <<>> THEN <<>> ELSE Head(lines) \o Join(Tail(lines))

\* '%s' % sh
BoolStr(b) == IF b THEN "True" ELSE "False"

\* file.read(n) on a non-blocking pipe: the bytes at hand (at most n); the
\* empty string at end of stream; IOError when no byte is at hand and the
\* write end is still open.
Read(pipe, closed, n) ==
    IF pipe # <<>>
    THEN [ioerror |-> FALSE, data |-> SubSeq(pipe, 1, Min(n, Len(pipe)))]
    ELSE [ioerror |-> ~closed, data |-> <<>>]

\* Mutation of CheckReturnCode: only a positive status counts as a failure.
CheckReturnCodePositive(rc, c, lines) ==
    IF rc > 0
    THEN [kind |-> "raise", value |-> <<>>,
          exc |-> [type |-> "CalledProcessError", returncode |-> rc,
                   cmd |-> c, output |-> Join(lines)]]
    ELSE [kind |-> "return", value |-> Join(lines), exc |-> NoExc]

\* if proc.returncode != 0: raise RuntimeError(CalledProcessError(...))
\* return ''.join(out)
CheckReturnCode(rc, c, lines) ==
    IF rc # 0
    THEN [kind |-> "raise", value |-> <<>>,
          exc |-> [type |-> "CalledProcessError", returncode |-> rc,
                   cmd |-> c, output |-> Join(lines)]]
    ELSE [kind |-> "return", value |-> Join(lines), exc |-> NoExc]

NoResult == [kind |-> "none", value |-> <<>>, exc |-> NoExc]

\* log.debug('System call [sh:%s]: %s' % (sh, cmd))
SystemCallMsg(sh, c) == <<"debug", <<"System call [sh:" \o BoolStr(sh) \o "]: " \o c>>>>

(***************************************************************************)
(* The caller                                                              *)
(***************************************************************************)
ChrootDir == "R"
UserCmd == "cmd"

Calls ==
    [fn : {"systemCall"}, cmd : {UserCmd}, sh : BOOLEAN, mountPseudoFs : {FALSE}]
        \cup
    [fn : {"chrootedSystemCall"}, cmd : {UserCmd}, sh : BOOLEAN,
     mountPseudoFs : BOOLEAN]

Init ==
    /\ call \in Calls
    /\ readFailed = FALSE
    /\ pc = "call"
    /\ idx = 1
    /\ spc = "idle"
    /\ cmd = ""
    /\ child = "none"
    /\ exitCode = None
    /\ pipeOut = <<>>
    /\ pipeErr = <<>>
    /\ wrOut = <<>>
    /\ wrErr = <<>>
    /\ fds = {}
    /\ outBuf = <<>>
    /\ errBuf = <<>>
    /\ out = <<>>
    /\ returncode = None
    /\ log = <<>>
    /\ pending = NoResult
    /\ result = NoResult
    /\ issued = <<>>
    /\ failed = {}
    /\ mounted = {}
    /\ dirs = {}

(***************************************************************************)
(* The child process                                                       *)
(***************************************************************************)
ChildWriteStdout ==
    /\ child = "running"
    /\ Len(wrOut) < (IF call.fn = "systemCall" THEN MaxOut ELSE ChrootMaxOut)
    /\ \E c \in OutChars :
         /\ pipeOut' = Append(pipeOut, c)
         /\ wrOut' = Append(wrOut, c)
    /\ UNCHANGED <<readFailed, call, pc, idx, spc, cmd, child, exitCode, pipeErr, wrErr, bufVars,
                   log, pending, result, issued, fsVars>>

ChildWriteStderr ==
    /\ child = "running"
    /\ Len(wrErr) < (IF call.fn = "systemCall" THEN MaxErr ELSE ChrootMaxErr)
    /\ \E c \in ErrChars :
         /\ pipeErr' = Append(pipeErr, c)
         /\ wrErr' = Append(wrErr, c)
    /\ UNCHANGED <<readFailed, call, pc, idx, spc, cmd, child, exitCode, pipeOut, wrOut, bufVars,
                   log, pending, result, issued, fsVars>>

ChildExit ==
    /\ child = "running"
    /\ child' = "exited"
    /\ \E rc \in ExitCodes : exitCode' = <<rc>>
    /\ UNCHANGED <<readFailed, call, pc, idx, spc, cmd, pipeOut, pipeErr, wrOut, wrErr, bufVars,
                   log, pending, result, issued, fsVars>>

(***************************************************************************)
(* systemCall                                                              *)
(***************************************************************************)
\* The write ends of the pipes are closed once the child has exited.
WriterClosed == child = "exited"

\* Mutation of ReadyFds: a hung-up descriptor without data is not reported.
ReadyFdsNoHup ==
    {fd \in {"stdout", "stderr"} :
        \/ fd = "stdout" /\ pipeOut # <<>>
        \/ fd = "stderr" /\ pipeErr # <<>>}

\* poller.poll(): the registered descriptors that are readable or hung up.
ReadyFds ==
    {fd \in {"stdout", "stderr"} :
        \/ WriterClosed
        \/ fd = "stdout" /\ pipeOut # <<>>
        \/ fd = "stderr" /\ pipeErr # <<>>}

\* Mutation of AfterPollOutput: every pollOutput is followed by the loop's
\* exit check, the one after the loop too.
AfterPollOutputLoops == "check"

\* Where pollOutput returns to: the loop's exit check, or, for the call made
\* after the loop, the return code check.
AfterPollOutput == IF returncode = None THEN "check" ELSE "rc"

\* Mutation of AfterStdout: the break of the stdout loop leaves pollOutput.
AfterStdoutReturns(f) == AfterPollOutput

\* After the stdout loop: the stderr loop when stderr was reported ready.
AfterStdout(f) == IF "stderr" \in f THEN "rd_err" ELSE AfterPollOutput

\* Popen(cmd, ..., shell=sh): with a shell the command line is interpreted
\* by /bin/sh; without one the whole string is the name of the program to
\* execute, and Popen raises OSError when there is no such program.
Programs == {UserCmd}

CanSpawn(sh, c) == sh \/ c \in Programs

\* systemCall entry: log the call, initialise the locals, Popen on the first
\* iteration of the loop.
Spawn ==
    /\ spc = "start"
    /\ CanSpawn(call.sh, cmd)
    /\ log' = Append(log, SystemCallMsg(call.sh, cmd))
    /\ issued' = Append(issued, cmd)
    /\ out' = <<>>
    /\ outBuf' = <<>>
    /\ errBuf' = <<>>
    /\ fds' = {}
    /\ returncode' = None
    /\ child' = "running"
    /\ exitCode' = None
    /\ pipeOut' = <<>>
    /\ pipeErr' = <<>>
    /\ wrOut' = <<>>
    /\ wrErr' = <<>>
    /\ spc' = "poll"
    /\ UNCHANGED <<readFailed, call, pc, idx, cmd, pending, result, fsVars>>

\* fds = [entry[0] for entry in poller.poll()]: blocks until a descriptor is
\* ready.
Poll ==
    /\ spc = "poll"
    /\ ReadyFds # {}
    /\ fds' = ReadyFds
    /\ spc' = IF "stdout" \in ReadyFds THEN "rd_out" ELSE AfterStdout(ReadyFds)
    /\ UNCHANGED <<readFailed, call, pc, idx, cmd, procVars, outBuf, errBuf, out, returncode, log,
                   pending, result, issued, fsVars>>

\* log.debug(line) for a stdout line, log.warning(line) for a stderr line.
StdoutLevel == "debug"

\* Mutation of StderrLevel: stderr lines logged like stdout lines.
StderrLevelDebug == "debug"

StderrLevel == "warning"

\* Mutation of LogLines: lines recognised while the child has not been seen
\* to exit are kept back; only the pass after the loop writes to the logger.
LogLinesAfterExit(level, lines) ==
    IF returncode = None THEN <<>> ELSE [i \in 1..Len(lines) |-> <<level, lines[i]>>]

\* log.debug(line) / log.warning(line), inside the loop that recognises the
\* lines of the chunk just read.
LogLines(level, lines) == [i \in 1..Len(lines) |-> <<level, lines[i]>>]

\* out.append(line + '\n') for every stdout line.
StdoutCapture(o, lines) == o \o [i \in 1..Len(lines) |-> Append(lines[i], NL)]

\* Mutation of StderrCapture: the stderr loop appends to out as well.
StderrCaptureAppends(o, lines) == StdoutCapture(o, lines)

\* The stderr loop appends nothing to out.
StderrCapture(o, lines) == o

\* One iteration of the stdout read loop.
ReadStdout ==
    /\ spc = "rd_out"
    /\ LET r == Read(pipeOut, WriterClosed, ChunkSize)
           s == SplitLines(outBuf \o r.data)
       IN IF r.ioerror
          THEN /\ spc' = AfterStdout(fds)
               /\ UNCHANGED <<pipeOut, outBuf, out, log>>
          ELSE /\ pipeOut' = SubSeq(pipeOut, Len(r.data) + 1, Len(pipeOut))
               /\ outBuf' = s.rest
               /\ log' = log \o LogLines(StdoutLevel, s.lines)
               /\ out' = StdoutCapture(out, s.lines)
               /\ spc' = IF r.data = <<>> THEN AfterStdout(fds) ELSE "rd_out"
    /\ UNCHANGED <<readFailed, call, pc, idx, cmd, child, exitCode, pipeErr, wrOut, wrErr, fds,
                   errBuf, returncode, pending, result, issued, fsVars>>

\* One iteration of the stderr read loop.
ReadStderr ==
    /\ spc = "rd_err"
    /\ LET r == Read(pipeErr, WriterClosed, ChunkSize)
           s == SplitLines(errBuf \o r.data)
       IN IF r.ioerror
          THEN /\ spc' = AfterPollOutput
               /\ UNCHANGED <<pipeErr, errBuf, log, out>>
          ELSE /\ pipeErr' = SubSeq(pipeErr, Len(r.data) + 1, Len(pipeErr))
               /\ errBuf' = s.rest
               /\ log' = log \o LogLines(StderrLevel, s.lines)
               /\ out' = StderrCapture(out, s.lines)
               /\ spc' = IF r.data = <<>> THEN AfterPollOutput ELSE "rd_err"
    /\ UNCHANGED <<readFailed, call, pc, idx, cmd, child, exitCode, pipeOut, wrOut, wrErr, fds,
                   outBuf, returncode, pending, result, issued, fsVars>>

\* Mutation of AfterLoop: no pollOutput() after the loop.
AfterLoopNoDrain == "rc"

\* After the loop: pollOutput() once more, then the return code check.
AfterLoop == "poll"

\* if proc.poll() is not None: break    (otherwise the loop calls pollOutput)
ProcPoll ==
    /\ spc = "check"
    /\ returncode' = IF child = "exited" THEN exitCode ELSE None
    /\ spc' = IF child = "exited" THEN AfterLoop ELSE "poll"
    /\ UNCHANGED <<readFailed, call, pc, idx, cmd, procVars, fds, outBuf, errBuf, out, log,
                   pending, result, issued, fsVars>>

\* systemCall's result reaches its caller: the top-level caller, or the try
\* statement of chrootedSystemCall, whose finally clause runs next.
Deliver(r) ==
    IF call.fn = "systemCall"
    THEN /\ result' = r
         /\ pc' = "done"
         /\ UNCHANGED pending
    ELSE /\ pending' = r
         /\ pc' = "finally"
         /\ UNCHANGED result

\* Popen raises OSError: systemCall is left before any process runs.
SpawnFail ==
    /\ spc = "start"
    /\ ~CanSpawn(call.sh, cmd)
    /\ log' = Append(log, SystemCallMsg(call.sh, cmd))
    /\ issued' = Append(issued, cmd)
    /\ spc' = "idle"
    /\ Deliver([kind |-> "raise", value |-> <<>>,
                exc |-> [type |-> "OSError", returncode |-> 0, cmd |-> cmd,
                         output |-> <<>>]])
    /\ UNCHANGED <<readFailed, call, idx, cmd, procVars, bufVars, fsVars>>

\* The return code check; the result goes to the caller of systemCall.
Finish ==
    /\ spc = "rc"
    /\ spc' = "idle"
    /\ Deliver(CheckReturnCode(returncode[1], cmd, out))
    /\ failed' = IF exitCode # <<0>> THEN failed \cup {cmd} ELSE failed
    /\ UNCHANGED <<readFailed, call, idx, cmd, procVars, bufVars, log, issued, mounted, dirs>>

\* The caller calls systemCall(cmd, sh).
CallSystemCall ==
    /\ pc = "call"
    /\ call.fn = "systemCall"
    /\ cmd' = call.cmd
    /\ spc' = "start"
    /\ pc' = "exec"
    /\ UNCHANGED <<readFailed, call, idx, procVars, bufVars, log, pending, result, issued, fsVars>>

(***************************************************************************)
(* chrootedSystemCall                                                      *)
(***************************************************************************)
\* path.join(chrootDir, name)
PathJoin(a, b) == a \o "/" \o b

ProcDir == PathJoin(ChrootDir, "proc")
SysDir == PathJoin(ChrootDir, "sys")
DevDir == PathJoin(ChrootDir, "dev")
DevPts == PathJoin(PathJoin(ChrootDir, "dev"), "pts")

\* 'mount %s %s %s' % (flags, dev, mountpoint)
MountCmd(dev, mountpoint, flags) == "mount " \o flags \o " " \o dev \o " " \o mountpoint

\* 'umount %s %s' % (flags, mountpoint)
UmountCmd(mountpoint, flags) == "umount " \o flags \o " " \o mountpoint

\* 'chroot %s %s' % (chrootDir, cmd)
ChrootCmd(root, c) == "chroot " \o root \o " " \o c

\* The three mount statements, in program order.
MountSeq ==
    <<[dev |-> "proc", mountpoint |-> ProcDir, flags |-> "-t proc"],
      [dev |-> "/sys", mountpoint |-> SysDir, flags |-> "--rbind"],
      [dev |-> "/dev", mountpoint |-> DevDir, flags |-> "--rbind"]>>

\* Mutation of UmountSeq: unmounting in the order of mounting.
UmountSeqForward(existing) ==
    (IF DevPts \in existing THEN <<DevPts>> ELSE <<>>) \o <<ProcDir, SysDir, DevDir>>

\* Mutation of UmountSeq: dev/pts is unmounted without the path test.
UmountSeqAlwaysPts(existing) == <<DevPts, DevDir, SysDir, ProcDir>>

\* The umount statements of the finally clause, in program order; the first
\* runs only if path.exists(devpts).
UmountSeq(existing) ==
    (IF DevPts \in existing THEN <<DevPts>> ELSE <<>>) \o <<DevDir, SysDir, ProcDir>>

\* Mutation of RaiseInFinally: an unmount error is dropped and the result of
\* the try body goes to the caller.
RaiseInFinallyDropped(pend, raised) == pend

\* An exception raised inside the finally clause replaces whatever the try
\* body produced (its return value or its exception).
RaiseInFinally(pend, raised) == raised

\* The caller calls chrootedSystemCall(chrootDir, cmd, sh, mountPseudoFs).
CallChrooted ==
    /\ pc = "call"
    /\ call.fn = "chrootedSystemCall"
    /\ pc' = IF call.mountPseudoFs THEN "mount" ELSE "try"
    /\ idx' = 1
    /\ UNCHANGED <<readFailed, call, spc, cmd, procVars, bufVars, log, pending, result, issued,
                   fsVars>>

\* Mutation of AfterMountError: the error of a mount is caught and the
\* function goes on to the try statement.
AfterMountErrorTry == "try"

\* Where a RuntimeError raised by mount() goes: the mount statements are not
\* inside any try, so it leaves chrootedSystemCall.
AfterMountError == "done"

\* mount(dev, mountpoint, flags): ensureDirectory (which creates the
\* directory), then systemCall on the mount command (default sh and log).
\* The mount command writes nothing; its exit status is the environment's.  A recursive bind of /dev brings
\* the host's /dev/pts along when the host has one.  The statement is
\* outside the try: a failure leaves chrootedSystemCall at once.
Mount ==
    /\ pc = "mount"
    /\ LET m == MountSeq[idx]
           c == MountCmd(m.dev, m.mountpoint, m.flags)
       IN /\ log' = Append(log, SystemCallMsg(TRUE, c))
          /\ issued' = Append(issued, c)
          /\ \E rc \in MountExitCodes, hostPts \in BOOLEAN :
               LET r == CheckReturnCode(rc, c, <<>>)
                   sub == IF m.dev = "/dev" /\ hostPts THEN {DevPts} ELSE {}
               IN IF r.kind = "raise"
                  THEN /\ dirs' = dirs \cup {m.mountpoint}
                       /\ failed' = failed \cup {c}
                       /\ result' = r
                       /\ pc' = AfterMountError
                       /\ UNCHANGED <<mounted, idx>>
                  ELSE /\ dirs' = dirs \cup {m.mountpoint} \cup sub
                       /\ UNCHANGED failed
                       /\ mounted' = mounted \cup {m.mountpoint} \cup sub
                       /\ pc' = IF idx = Len(MountSeq) THEN "try" ELSE "mount"
                       /\ idx' = IF idx = Len(MountSeq) THEN 1 ELSE idx + 1
                       /\ UNCHANGED result
    /\ UNCHANGED <<readFailed, call, spc, cmd, procVars, bufVars, pending>>

\* try: log.debug(...); cmd = 'chroot %s %s' % (chrootDir, cmd);
\* return systemCall(cmd, sh, log)
EnterTry ==
    /\ pc = "try"
    /\ log' = Append(log, <<"debug", <<"Execute chrooted command ...">>>>)
    /\ cmd' = ChrootCmd(ChrootDir, call.cmd)
    /\ spc' = "start"
    /\ pc' = "exec"
    /\ UNCHANGED <<readFailed, call, idx, procVars, bufVars, pending, result, issued, fsVars>>

\* Mutation of RunsCleanup: the unmounts follow the try statement instead of
\* being its finally clause, so they run only when the try body returned.
RunsCleanupOnReturn(pend, mountPseudoFs) == mountPseudoFs /\ pend.kind = "return"

\* Mutation of RunsCleanup: the finally clause unmounts unconditionally.
RunsCleanupAlways(pend, mountPseudoFs) == TRUE

\* finally: if mountPseudoFs: -- the clause runs whatever the try body
\* produced, and unmounts when the pseudo file systems were mounted.
RunsCleanup(pend, mountPseudoFs) == mountPseudoFs

\* The finally clause; without cleanup the try's result goes through.
EnterFinally ==
    /\ pc = "finally"
    /\ IF RunsCleanup(pending, call.mountPseudoFs)
       THEN /\ pc' = "umount"
            /\ idx' = 1
            /\ UNCHANGED result
       ELSE /\ pc' = "done"
            /\ result' = pending
            /\ UNCHANGED idx
    /\ UNCHANGED <<readFailed, call, spc, cmd, procVars, bufVars, log, pending, issued, fsVars>>

\* umount(mountpoint, '-lf'): systemCall on the umount command.  A lazy
\* unmount detaches the mount point together with what is mounted below it.
\* A failure leaves the finally clause at once; after the last statement the
\* result of the try body goes to the caller.
Umount ==
    /\ pc = "umount"
    /\ LET seq == UmountSeq(dirs)
           mp == seq[idx]
           c == UmountCmd(mp, "-lf")
       IN /\ log' = Append(log, SystemCallMsg(TRUE, c))
          /\ issued' = Append(issued, c)
          /\ \E rc \in MountExitCodes :
               LET r == CheckReturnCode(rc, c, <<>>)
               IN IF r.kind = "raise"
                  THEN /\ result' = RaiseInFinally(pending, r)
                       /\ failed' = failed \cup {c}
                       /\ pc' = "done"
                       /\ UNCHANGED <<mounted, idx>>
                  ELSE /\ UNCHANGED failed
                       /\ mounted' = mounted \ ({mp} \cup (IF mp = DevDir THEN {DevPts} ELSE {}))
                       /\ IF idx = Len(seq)
                          THEN /\ result' = pending
                               /\ pc' = "done"
                               /\ UNCHANGED idx
                          ELSE /\ idx' = idx + 1
                               /\ UNCHANGED <<pc, result>>
    /\ UNCHANGED <<readFailed, call, spc, cmd, procVars, bufVars, pending, dirs>>

Next ==
    \/ CallSystemCall
    \/ CallChrooted
    \/ Mount
    \/ EnterTry
    \/ Spawn
    \/ SpawnFail
    \/ Poll
    \/ ReadStdout
    \/ ReadStderr
    \/ ProcPoll
    \/ Finish
    \/ EnterFinally
    \/ Umount
    \/ ChildWriteStdout
    \/ ChildWriteStderr
    \/ ChildExit

Spec == Init /\ [][Next]_vars

(***************************************************************************)
(* Reads that fail                                                         *)
(***************************************************************************)
\* proc.stdout.read(100) raises IOError for a cause other than the pipe being
\* empty (EIO, say): "except IOError: break" ends the stdout loop.
ReadStdoutError ==
    /\ spc = "rd_out"
    /\ spc' = AfterStdout(fds)
    /\ readFailed' = TRUE
    /\ UNCHANGED <<call, pc, idx, cmd, procVars, bufVars, log, pending, result, issued,
                   fsVars>>

\* The same in the stderr loop.
ReadStderrError ==
    /\ spc = "rd_err"
    /\ spc' = AfterPollOutput
    /\ readFailed' = TRUE
    /\ UNCHANGED <<call, pc, idx, cmd, procVars, bufVars, log, pending, result, issued,
                   fsVars>>

\* The program on a host where reads of the pipes can fail.
NextIO ==
    \/ Next
    \/ ReadStdoutError
    \/ ReadStderrError

SpecIO == Init /\ [][NextIO]_vars

(***************************************************************************)
(* Vocabulary of the properties                                            *)
(***************************************************************************)
IsPrefix(s, t) == Len(s) <= Len(t) /\ SubSeq(t, 1, Len(s)) = s

Range(s) == {s[i] : i \in 1..Len(s)}

\* Position of command c in the commands issued (0: never issued).
PosOf(c) == IF c \in Range(issued) THEN CHOOSE i \in 1..Len(issued) : issued[i] = c ELSE 0

IssuedMountCmd(i) == MountCmd(MountSeq[i].dev, MountSeq[i].mountpoint, MountSeq[i].flags)

UmountOf(mp) == UmountCmd(mp, "-lf")

MountTargets == {ProcDir, SysDir, DevDir}

IsUmountCmd(c) == c \in {UmountOf(mp) : mp \in MountTargets \cup {DevPts}}

IsMountCmd(c) == c \in {IssuedMountCmd(i) : i \in 1..3}

\* The umount / mount command lines issued so far, in order.
UmountsIssued == SelectSeq(issued, IsUmountCmd)

MountsIssued == SelectSeq(issued, IsMountCmd)

TheChrootCmd == ChrootCmd(ChrootDir, call.cmd)

Chrooted == call.fn = "chrootedSystemCall"

Done == pc = "done"

\* Mount statement i was executed and its command exited 0.
MountSucceeded(i) == IssuedMountCmd(i) \in Range(issued) /\ IssuedMountCmd(i) \notin failed

\* The chrooted command ran and exited non-zero.
CommandFailed == Chrooted /\ TheChrootCmd \in failed

\* The chrooted command ran and exited 0.
CommandSucceeded ==
    /\ Chrooted
    /\ pending.kind = "return"

UmountFailed == \E mp \in MountTargets \cup {DevPts} : UmountOf(mp) \in failed

\* The error of the chrooted command, as systemCall raised it.
IsCommandError(r) ==
    /\ r.kind = "raise"
    /\ r.exc.type = "CalledProcessError"
    /\ r.exc.cmd = TheChrootCmd

(***************************************************************************)
(* C1.  Mount rollback on partial failure: when the second mount step      *)
(* (/sys at <root>/sys) fails, exactly the first mount (<root>/proc) is    *)
(* unmounted, no other unmount is issued, and the failure raised names the *)
(* second target.                                                          *)
(***************************************************************************)
SecondMountFailed == Chrooted /\ call.mountPseudoFs /\ IssuedMountCmd(2) \in failed

C1_MountRollback ==
    (Done /\ SecondMountFailed) =>
        /\ UmountsIssued = <<UmountOf(ProcDir)>>
        /\ result.kind = "raise"
        /\ result.exc.cmd = IssuedMountCmd(2)

(***************************************************************************)
(* C2.  Unmount before the command's failure is raised: with the three     *)
(* mounts made and the chrooted command exiting non-zero, the finally      *)
(* clause is entered (an unmount is issued), nothing reaches the caller    *)
(* before the call is over, and whenever the command's failure is what the *)
(* caller gets, the unmounts of <root>/dev, <root>/sys and <root>/proc     *)
(* were all issued, after the chrooted command.                            *)
(***************************************************************************)
C2_UnmountBeforeCommandFailure ==
    /\ (result.kind # "none") => Done
    /\ (Done /\ call.mountPseudoFs /\ CommandFailed) =>
          /\ UmountsIssued # <<>>
          /\ IsCommandError(result) =>
                \A mp \in MountTargets :
                    /\ UmountOf(mp) \in Range(issued)
                    /\ PosOf(UmountOf(mp)) > PosOf(TheChrootCmd)

C2_Witness ==
    /\ Done /\ call.mountPseudoFs /\ CommandFailed
    /\ IsCommandError(result)
    /\ result.exc.returncode = 1
    /\ Len(UmountsIssued) = 4

(***************************************************************************)
(* C3.  Unmount errors never mask the primary error: when the chrooted     *)
(* command fails and an unmount fails too, the caller gets the command's   *)
(* failure.                                                                *)
(***************************************************************************)
C3_CommandErrorNotMasked ==
    (Done /\ CommandFailed /\ UmountFailed) => IsCommandError(result)

(***************************************************************************)
(* C4.  Teardown is unconditional once mounting has begun: when the call   *)
(* is over, every target whose mount succeeded has had an unmount issued.  *)
(***************************************************************************)
C4_EveryMountTornDown ==
    (Done /\ Chrooted /\ call.mountPseudoFs) =>
        \A i \in 1..3 :
            MountSucceeded(i) => UmountOf(MountSeq[i].mountpoint) \in Range(issued)

(***************************************************************************)
(* Vocabulary of the stream properties                                     *)
(***************************************************************************)
\* The result systemCall gave for the command of the call.
SysResult == IF Chrooted THEN pending ELSE result

\* systemCall has run a child to its end and returned or raised.
SysCallOver == spc = "idle" /\ child = "exited"

\* The stdout string a result carries: returned, or inside the failure.
Captured(r) == IF r.kind = "return" THEN r.value ELSE r.exc.output

LastNL(s) ==
    IF \E i \in 1..Len(s) : s[i] = NL
    THEN CHOOSE i \in 1..Len(s) : s[i] = NL /\ \A j \in (i+1)..Len(s) : s[j] # NL
    ELSE 0

\* The newline-terminated lines of a byte stream, as one string.
UpToLastNL(s) == SubSeq(s, 1, LastNL(s))

NLCount(s) == Cardinality({i \in 1..Len(s) : s[i] = NL})

\* A log text that is a line of child output (not a message of the program).
IsChildLine(text) == \A i \in 1..Len(text) : text[i] \in (OutChars \cup ErrChars) \ {NL}

IsDebugLine(e) == e[1] = "debug" /\ IsChildLine(e[2])

IsWarningLine(e) == e[1] = "warning" /\ IsChildLine(e[2])

RECURSIVE TextsWithNL(_)
TextsWithNL(entries) ==
    IF entries = <<>> THEN <<>>
    ELSE Head(entries)[2] \o <<NL>> \o TextsWithNL(Tail(entries))

\* The child lines logged at debug / warning level, newline-terminated, as
\* one string in log order.
DebugLogged == TextsWithNL(SelectSeq(log, IsDebugLine))

WarningLogged == TextsWithNL(SelectSeq(log, IsWarningLine))

\* The stdout bytes systemCall has read so far.
ConsumedOut == SubSeq(wrOut, 1, Len(wrOut) - Len(pipeOut))

(***************************************************************************)
(* C5.  Exit-code propagation: after a child run, exit status 0 gives a    *)
(* normal return of the captured stdout; any other status gives a raised   *)
(* failure carrying that status, the command and the captured stdout.      *)
(***************************************************************************)
C5_ExitCodePropagation ==
    SysCallOver =>
        IF exitCode = <<0>>
        THEN /\ SysResult.kind = "return"
             /\ SysResult.value = Join(out)
        ELSE /\ SysResult.kind = "raise"
             /\ SysResult.exc.type = "CalledProcessError"
             /\ SysResult.exc.returncode = exitCode[1]
             /\ SysResult.exc.cmd = (IF Chrooted THEN TheChrootCmd ELSE call.cmd)
             /\ SysResult.exc.output = Join(out)

C5_Witness ==
    /\ SysCallOver
    /\ ~Chrooted
    /\ exitCode = <<-9>>
    /\ result.kind = "raise"
    /\ result.exc.output = <<"a", NL>>

(***************************************************************************)
(* C6.  Completeness modulo trailing newline: what systemCall returns (or  *)
(* puts into the failure) is exactly the newline-terminated lines the      *)
(* child wrote to stdout, in order, however the bytes were split over      *)
(* reads and readiness rounds; an unterminated last line is not returned   *)
(* and not logged (as many debug lines as newlines written).               *)
(***************************************************************************)
C6_CompleteLinesReturned ==
    SysCallOver =>
        /\ Captured(SysResult) = UpToLastNL(wrOut)
        /\ Len(SelectSeq(log, IsDebugLine)) = NLCount(wrOut)
        /\ pipeOut = <<>>

C6_Witness ==
    /\ SysCallOver
    /\ wrOut = <<"a", NL, "a">>
    /\ result.kind = "return"
    /\ result.value = <<"a", NL>>
    /\ outBuf = <<"a">>

(***************************************************************************)
(* C7.  Interleaving: at any time the stdout lines logged (debug) are, in  *)
(* order and without repetition, the first lines written to stdout, and    *)
(* the stderr lines logged (warning) the first lines written to stderr;    *)
(* when systemCall is over every newline-terminated line of either stream  *)
(* has been logged, once, at its level.                                    *)
(***************************************************************************)
C7_Interleaving ==
    /\ IsPrefix(DebugLogged, wrOut)
    /\ IsPrefix(WarningLogged, wrErr)
    /\ SysCallOver =>
          /\ DebugLogged = UpToLastNL(wrOut)
          /\ WarningLogged = UpToLastNL(wrErr)

C7_Witness ==
    /\ SysCallOver
    /\ wrOut = <<"a", NL, NL>>
    /\ wrErr = <<"e", NL>>
    /\ \E i, j, k \in 1..Len(log) :
          /\ i < j /\ j < k
          /\ log[i] = <<"debug", <<"a">>>>
          /\ log[j] = <<"warning", <<"e">>>>
          /\ log[k] = <<"debug", <<>>>>

(***************************************************************************)
(* C8.  stderr is never returned: in every state out holds exactly the     *)
(* newline-terminated lines among the bytes read from stdout, and so does  *)
(* the string handed to the caller.                                        *)
(***************************************************************************)
C8_StderrNeverReturned ==
    /\ Join(out) = UpToLastNL(ConsumedOut)
    /\ (spc = "idle" /\ child # "none") => IsPrefix(Captured(SysResult), wrOut)

C8_Witness ==
    /\ out = <<<<"a", NL>>>>
    /\ log # <<>>
    /\ log[Len(log)] = <<"warning", <<"e">>>>
    /\ spc = "rd_err"

(***************************************************************************)
(* C9.  Strict reverse-order teardown: the mounts are issued in the order  *)
(* proc, sys, dev; the unmounts in the order [dev/pts], dev, sys, proc;    *)
(* every unmount comes after the chrooted command, and a target is         *)
(* unmounted only after every target mounted after it was unmounted.       *)
(***************************************************************************)
C9_ReverseOrderTeardown ==
    /\ IsPrefix(MountsIssued,
                <<"mount -t proc proc R/proc", "mount --rbind /sys R/sys",
                  "mount --rbind /dev R/dev">>)
    /\ \/ IsPrefix(UmountsIssued,
                   <<"umount -lf R/dev/pts", "umount -lf R/dev", "umount -lf R/sys",
                     "umount -lf R/proc">>)
       \/ IsPrefix(UmountsIssued,
                   <<"umount -lf R/dev", "umount -lf R/sys", "umount -lf R/proc">>)
    /\ UmountsIssued # <<>> =>
          /\ Len(MountsIssued) = 3
          /\ \A i \in 1..Len(issued) :
                IsUmountCmd(issued[i]) => i > PosOf("chroot R cmd") /\ PosOf("chroot R cmd") > 3
    /\ \A i, j \in 1..3 :
          (i < j /\ UmountOf(MountSeq[i].mountpoint) \in Range(issued)) =>
              /\ UmountOf(MountSeq[j].mountpoint) \in Range(issued)
              /\ UmountOf(MountSeq[j].mountpoint) \notin failed
              /\ PosOf(UmountOf(MountSeq[j].mountpoint)) < PosOf(UmountOf(MountSeq[i].mountpoint))

C9_Witness ==
    /\ Done
    /\ UmountsIssued =
          <<"umount -lf R/dev/pts", "umount -lf R/dev", "umount -lf R/sys",
            "umount -lf R/proc">>
    /\ failed = {}

(***************************************************************************)
(* C10.  When the chrooted command succeeds and an unmount fails, the      *)
(* call does not return the captured output: the caller gets the unmount   *)
(* error.                                                                  *)
(***************************************************************************)
C10_UnmountErrorReported ==
    (Done /\ CommandSucceeded /\ UmountFailed) =>
        /\ result.kind = "raise"
        /\ IsUmountCmd(result.exc.cmd)
        /\ result.exc.cmd \in failed
        /\ result.exc.returncode # 0

C10_Witness ==
    /\ Done /\ CommandSucceeded /\ UmountFailed
    /\ pending.value = <<"a", NL>>
    /\ result.exc.cmd = "umount -lf R/sys"

(***************************************************************************)
(* C11.  Streaming log: in every state, so in particular at every          *)
(* readiness wait and every exit-status check, each newline-terminated     *)
(* line among the bytes read so far from either stream has already been    *)
(* logged; nothing that was read in full waits for a later pass or for     *)
(* the end of the child.                                                   *)
(***************************************************************************)
\* The stderr bytes systemCall has read so far.
ConsumedErr == SubSeq(wrErr, 1, Len(wrErr) - Len(pipeErr))

C11_StreamingLog ==
    /\ DebugLogged = UpToLastNL(ConsumedOut)
    /\ WarningLogged = UpToLastNL(ConsumedErr)

\* A stdout line is in the log while the child still runs and the loop is
\* about to wait for readiness again.
C11_Witness ==
    /\ child = "running"
    /\ spc = "poll"
    /\ returncode = None
    /\ ConsumedOut = <<"a", NL>>
    /\ ConsumedErr = <<"e", NL>>
    /\ Len(log) = 3

(***************************************************************************)
(* C12.  A failed mount step keeps the chrooted command from starting:     *)
(* once a mount command has exited non-zero, 'chroot <root> <cmd>' is      *)
(* never handed to Popen, no child of it exists, and the call is over      *)
(* with a raised failure.                                                  *)
(***************************************************************************)
MountFailed == \E i \in 1..3 : IssuedMountCmd(i) \in failed

C12_NoCommandAfterMountFailure ==
    MountFailed =>
        /\ "chroot R cmd" \notin Range(issued)
        /\ child = "none"
        /\ spc = "idle"
        /\ Done
        /\ result.kind = "raise"
        /\ IsMountCmd(result.exc.cmd)

C12_Witness ==
    /\ Done
    /\ IssuedMountCmd(3) \in failed
    /\ result.exc.cmd = "mount --rbind /dev R/dev"
    /\ mounted = {ProcDir, SysDir}

(***************************************************************************)
(* C13.  Drain-loop termination: the loop is left (proc.returncode is set, *)
(* the return code is checked, systemCall is over) only when the child has *)
(* exited; and once the child has exited, whatever its status (a kill by   *)
(* signal included), poller.poll(), the one call of the loop that waits,   *)
(* always has a ready descriptor and every step of systemCall lowers a     *)
(* natural-number rank that is 0 only at its return or raise: systemCall   *)
(* ends within Rank steps.                                                 *)
(***************************************************************************)
PosRank ==
    CASE spc = "poll" -> 4
      [] spc = "rd_out" -> 3
      [] spc = "rd_err" -> 2
      [] spc = "check" -> 1
      [] spc = "rc" -> 1
      [] OTHER -> 0

\* Steps systemCall still has to take, at most, once the child has exited.
Rank == (IF returncode = None THEN 5 ELSE 0) + PosRank + Len(pipeOut) + Len(pipeErr)

\* What holds of every state: the loop is left only after the exit; after the
\* exit poller.poll() does not wait; rank 0 is the end of systemCall.
DrainLoopState ==
    /\ (returncode # None \/ spc = "rc" \/ (spc = "idle" /\ child # "none"))
            => child = "exited"
    /\ (child = "exited" /\ spc = "poll") => ENABLED Poll
    /\ (child = "exited" /\ Rank = 0) => (spc = "idle" /\ SysResult.kind # "none")

C13_DrainLoopTermination ==
    [][/\ DrainLoopState
       /\ DrainLoopState'
       /\ (child = "exited" /\ spc # "idle") => Rank' < Rank]_vars

C13_Witness ==
    /\ SysCallOver
    /\ exitCode = <<-9>>
    /\ result.kind = "raise"
    /\ wrOut = <<"a", NL, "a">>

(***************************************************************************)
(* C14.  Every pollOutput pass made before the exit is observed ends in    *)
(* the loop's proc.poll() check; the check that observes the exit starts   *)
(* one more pass; that pass ends in the return code check and no pass      *)
(* starts after it: exactly one pass follows the observation.  When the    *)
(* return code is checked nothing the child wrote is left in the pipes.    *)
(***************************************************************************)
InPass == spc \in {"poll", "rd_out", "rd_err"}

\* The return code is evaluated with both pipes read to their end.
DrainedAtReturnCode ==
    (spc = "rc" \/ SysCallOver) => (pipeOut = <<>> /\ pipeErr = <<>>)

C14_OneFinalDrainPass ==
    [][/\ (InPass /\ ~InPass') =>
              spc' = (IF returncode = None THEN "check" ELSE "rc")
       /\ (returncode = None /\ returncode' # None) =>
              (spc = "check" /\ spc' = "poll")
       /\ (returncode # None /\ spc' = "poll") => spc = "poll"
       /\ (spc' = "rc" /\ spc # "rc") => (InPass /\ returncode # None)
       /\ DrainedAtReturnCode'
      ]_vars

\* The exit has just been observed while output of both streams is unread.
C14_Witness ==
    /\ returncode = <<0>>
    /\ spc = "poll"
    /\ pipeOut = <<"a", NL>>
    /\ pipeErr = <<"e", NL>>
    /\ out = <<>>

(***************************************************************************)
(* C15.  LineBuffer invariant: between reads neither outBuf nor errBuf     *)
(* holds a newline; each buffer is what was read after the stream's last   *)
(* newline, and every newline read so far has produced one log record.     *)
(***************************************************************************)
AfterLastNL(s) == SubSeq(s, LastNL(s) + 1, Len(s))

C15_LineBufferInvariant ==
    /\ ~HasNL(outBuf)
    /\ ~HasNL(errBuf)
    /\ outBuf = AfterLastNL(ConsumedOut)
    /\ errBuf = AfterLastNL(ConsumedErr)
    /\ Len(SelectSeq(log, IsDebugLine)) = NLCount(ConsumedOut)
    /\ Len(SelectSeq(log, IsWarningLine)) = NLCount(ConsumedErr)

\* Two newlines and the start of a third line have been read.
C15_Witness ==
    /\ spc = "rd_out"
    /\ child = "running"
    /\ ConsumedOut = <<NL, NL, "a">>
    /\ outBuf = <<"a">>
    /\ out = <<<<NL>>, <<NL>>>>
    /\ Len(log) = 3

(***************************************************************************)
(* C16.  A would-block (or end of stream) on one stream does not stall the *)
(* other: poller.poll() reports every stream that has data, whatever the   *)
(* state of the other; when the stdout loop ends in a pass where stderr    *)
(* was reported, the stderr loop runs next; a read takes everything its    *)
(* pipe holds, and a read loop is left only with its pipe empty.           *)
(***************************************************************************)
\* A step of systemCall (the child does nothing in it).
ChildIdle == UNCHANGED <<child, wrOut, wrErr>>

C16_NoCrossStreamStall ==
    [][/\ (spc = "poll" /\ spc' # "poll") =>
              /\ (pipeOut # <<>> => "stdout" \in fds' /\ spc' = "rd_out")
              /\ (pipeErr # <<>> => "stderr" \in fds')
       /\ (spc = "rd_out" /\ spc' # "rd_out") =>
              /\ pipeOut = <<>>
              /\ ("stderr" \in fds => spc' = "rd_err")
       /\ (spc = "rd_err" /\ spc' # "rd_err") => pipeErr = <<>>
       /\ (spc = "rd_out" /\ ChildIdle) => pipeOut' = <<>>
       /\ (spc = "rd_err" /\ ChildIdle) => pipeErr' = <<>>
      ]_vars

\* The child runs, both streams were reported, stdout has been read until it
\* would block, and the stderr loop is about to read what stderr holds.
C16_Witness ==
    /\ child = "running"
    /\ spc = "rd_err"
    /\ fds = {"stdout", "stderr"}
    /\ ConsumedOut = <<"a">>
    /\ pipeOut = <<>>
    /\ pipeErr = <<"e", NL>>
    /\ log = <<SystemCallMsg(TRUE, "cmd")>>

(***************************************************************************)
(* C17.  Read errors are never swallowed: when a read of stdout or stderr  *)
(* has failed for a cause other than "no data yet", systemCall ends by     *)
(* raising, never by returning normally.                                   *)
(***************************************************************************)
C17_ReadErrorsReported ==
    (SysCallOver /\ readFailed) => SysResult.kind = "raise"

(***************************************************************************)
(* C18.  With mountPseudoFs false chrootedSystemCall hands no command to   *)
(* the system but the chrooted command, once, whether it succeeds or       *)
(* fails; nothing is mounted or unmounted, no directory is created, and    *)
(* the caller gets the outcome of the command.                             *)
(***************************************************************************)
C18_NoPseudoFsNoMounts ==
    (Chrooted /\ ~call.mountPseudoFs) =>
        /\ issued \in {<<>>, <<TheChrootCmd>>}
        /\ MountsIssued = <<>>
        /\ UmountsIssued = <<>>
        /\ mounted = {}
        /\ dirs = {}
        /\ pc \notin {"mount", "umount"}
        /\ Done => (issued = <<TheChrootCmd>> /\ result = pending)

\* The command failed and the call is over; only the command was issued.
C18_Witness ==
    /\ Done
    /\ Chrooted
    /\ ~call.mountPseudoFs
    /\ CommandFailed
    /\ result.kind = "raise"
    /\ result.exc.cmd = "chroot R cmd"
    /\ issued = <<"chroot R cmd">>

(***************************************************************************)
(* C19.  In the teardown the unmount of R/dev/pts is issued if and only if *)
(* the path exists; it is then the first unmount, and R/dev is unmounted   *)
(* right after it once it has succeeded; when the path does not exist the  *)
(* first unmount is that of R/dev.                                         *)
(***************************************************************************)
C19_DevPtsConditionalUnmount ==
    UmountsIssued # <<>> =>
        /\ ("umount -lf R/dev/pts" \in Range(issued)) <=> ("R/dev/pts" \in dirs)
        /\ UmountsIssued[1] =
              (IF "R/dev/pts" \in dirs THEN "umount -lf R/dev/pts" ELSE "umount -lf R/dev")
        /\ "umount -lf R/dev" \in Range(issued) =>
              PosOf("umount -lf R/dev") =
                  (IF "R/dev/pts" \in dirs THEN PosOf("umount -lf R/dev/pts") + 1
                   ELSE PosOf("chroot R cmd") + 1)

\* R/dev/pts does not exist and the teardown has started with R/dev.
C19_Witness ==
    /\ pc = "umount"
    /\ idx = 2
    /\ DevPts \notin dirs
    /\ DevDir \in dirs
    /\ UmountsIssued = <<"umount -lf R/dev">>
    /\ mounted = {ProcDir, SysDir}

(***************************************************************************)
(* C20.  The chroot wrapper always runs 'chroot <root> <cmd>' through the  *)
(* shell, whatever the caller passes for sh: the inner systemCall logs     *)
(* "[sh:True]" for it and the shell starts a child for it.                 *)
(***************************************************************************)
C20_ChrootAlwaysShell ==
    (Chrooted /\ "chroot R cmd" \in Range(issued)) =>
        /\ <<"debug", <<"System call [sh:True]: chroot R cmd">>>> \in Range(log)
        /\ child # "none"

====
